---- MODULE Spec2Model ----
(***************************************************************************)
(* TVM: the fetch-decode-execute loop of src/tyvm.c (an LC-3 virtual       *)
(* machine).  Words are 16-bit unsigned integers; the register file is     *)
(* reg[RG_COUNT]; memory is the array memory[UINT16_MAX].                   *)
(***************************************************************************)
EXTENDS Integers, Naturals, Sequences, FiniteSets, TLC

(* ------------------------------ bounds --------------------------------- *)
\* number of words of the loaded program image
ProgLen == 3
\* number of loop iterations explored
MaxSteps == 4
\* largest number of image files on the command line
MaxArgs == 6

(* ------------------------- program constants --------------------------- *)
RG_000 == 0
RG_001 == 1
RG_010 == 2
RG_011 == 3
RG_100 == 4
RG_101 == 5
RG_110 == 6
RG_111 == 7
RG_PC == 8
RG_COND == 9
RG_COUNT == 10

\* UINT16_MAX, the number of elements of memory[]
UINT16_MAX == 65535
\* 2^16: uint16_t arithmetic is modulo this
WordMod == 65536
\* reg[RG_PC] = 0x3000, the default load address
PC_START == 12288

OP_BR == 0
OP_ADD == 1
OP_LD == 2
OP_ST == 3
OP_JSR == 4
OP_AND == 5
OP_LDR == 6
OP_STR == 7
OP_RTI == 8
OP_NOT == 9
OP_LDI == 10
OP_STI == 11
OP_JMP == 12
OP_RES == 13
OP_LEA == 14
OP_TRAP == 15

FL_P == 1
FL_Z == 2
FL_N == 4

Word == 0 .. (WordMod - 1)

(* ----------------------- uint16_t bit operations ----------------------- *)
\* 1 << k, for k in 0 .. 16
Pow2(k) ==
    <<1, 2, 4, 8, 16, 32, 64, 128, 256, 512, 1024, 2048, 4096, 8192, 16384,
      32768, 65536>>[k + 1]

RECURSIVE BitAnd(_, _)
\* a & b
BitAnd(a, b) ==
    IF a = 0 \/ b = 0 THEN 0
    ELSE (a % 2) * (b % 2) + 2 * BitAnd(a \div 2, b \div 2)

RECURSIVE BitOr(_, _)
\* a | b
BitOr(a, b) ==
    IF a = 0 THEN b
    ELSE IF b = 0 THEN a
    ELSE (IF a % 2 = 1 \/ b % 2 = 1 THEN 1 ELSE 0) + 2 * BitOr(a \div 2, b \div 2)

\* the low 16 bits of a << k, which is what a uint16_t keeps of it (k <= 16).
\* For a = 0xFFFF and k = 16 the int product exceeds INT_MAX; the compilers
\* shift the bit pattern, so the low 16 bits are 0 as computed here.
ShlW(a, k) == (a % Pow2(16 - k)) * Pow2(k)

\* a >> k
Shr(a, k) == a \div Pow2(k)

\* ~a on a uint16_t
BitNot(a) == (WordMod - 1) - a

\* a + b stored into a uint16_t
AddW(a, b) == (a + b) % WordMod

(* ------------------------------ helpers -------------------------------- *)
\* sign_extend testing bit bit_count instead of bit bit_count - 1
sign_extend_bit(n, bit_count) ==
    IF BitAnd(Shr(n, bit_count), 1) = 1
    THEN BitOr(n, ShlW(65535, bit_count))
    ELSE n

\* uint16_t sign_extend(uint16_t n, int bit_count)
sign_extend(n, bit_count) ==
    IF BitAnd(Shr(n, bit_count - 1), 1) = 1
    THEN BitOr(n, ShlW(65535, bit_count))
    ELSE n

\* the flag update_flags stores for a register holding v
FlagOf(v) ==
    IF v = 0 THEN FL_Z
    ELSE IF Shr(v, 15) # 0 THEN FL_N
    ELSE FL_P

\* update_flags comparing reg[r] as if it were never negative
update_flags_unsigned(rg, r) ==
    [rg EXCEPT ![RG_COND] = IF rg[r] = 0 THEN FL_Z ELSE FL_P]

\* void update_flags(uint16_t r), on the register file rg
update_flags(rg, r) == [rg EXCEPT ![RG_COND] = FlagOf(rg[r])]

(* ------------------------------- state --------------------------------- *)
VARIABLES
    reg,        \* uint16_t reg[RG_COUNT]
    memory,     \* uint16_t memory[UINT16_MAX]: the loaded words; every other word is 0
    running,    \* int running
    instr,      \* uint16_t instr, the instruction fetched by the last iteration
    steps,      \* number of loop iterations done
    pre,        \* reg, memory and running as they were before the last iteration
    pc,         \* where the program is: "main" (entry of main), "loop"
                \* (while(running)), "exit_1", "exit_2" (after exit(1), exit(2)),
                \* "sign_extend" and "returned" (a call of sign_extend on its own)
    argv,       \* argv[1 .. argc-1]: for each image file, whether it can be loaded
    call        \* the arguments and the return value of a call of sign_extend

vars == <<reg, memory, running, instr, steps, pre, pc, argv, call>>

\* call, when sign_extend is not being called on its own
NoCall == [n |-> 0, bit_count |-> 1, ret |-> 0]

\* memory[a] for an index inside the array (a static array starts zeroed)
Mem(mem, a) == IF a \in DOMAIN mem THEN mem[a] ELSE 0

\* what a read past the end of memory[] may yield
OobWords == {0, 53248, 58368, 65535}

\* mem_read(address): the word memory[address]; address UINT16_MAX is one past
\* the last element of memory[], where the read yields an arbitrary word
mem_read(mem, address) ==
    IF address < UINT16_MAX THEN {Mem(mem, address)} ELSE OobWords

\* instr >> 12
Op(w) == Shr(w, 12)
\* (instr >> 9) & 0x7
Bits9(w) == BitAnd(Shr(w, 9), 7)
\* (instr >> 6) & 0x7
Bits6(w) == BitAnd(Shr(w, 6), 7)

\* update_flags(dr) in a case that declares no dr of its own: dr is the
\* uninitialised variable of another case, so COND ends as any of the three flags
update_flags_stale(rg) == { [rg EXCEPT ![RG_COND] = f] : f \in {FL_P, FL_Z, FL_N} }

(* ------------------------- the switch's cases -------------------------- *)
\* Each case maps the register file after reg[RG_PC]++ to the set of register
\* files it may leave.  No case writes memory or running.  (The second source
\* file, an earlier draft of tyvm.c, has the same loop with every case empty.)

\* case OP_BR branching whatever the condition mask is
case_BR_always(rg, mem, w) ==
    {[rg EXCEPT ![RG_PC] = AddW(rg[RG_PC], sign_extend(BitAnd(w, 511), 9))]}

case_BR(rg, mem, w) ==
    LET cond      == Bits9(w)
        PCoffset9 == sign_extend(BitAnd(w, 511), 9)
    IN  IF BitAnd(cond, rg[RG_COND]) # 0
        THEN {[rg EXCEPT ![RG_PC] = AddW(rg[RG_PC], PCoffset9)]}
        ELSE {rg}

case_ADD(rg, mem, w) ==
    LET dr       == Bits9(w)
        sr1      == Bits6(w)
        imm_flag == BitAnd(Shr(w, 5), 1)
        sr2      == BitAnd(w, 7)
        imm5     == sign_extend(BitAnd(w, 31), 5)
    IN  IF imm_flag = 0
        THEN {update_flags([rg EXCEPT ![dr] = AddW(rg[sr1], sr2)], dr)}
        ELSE {update_flags([rg EXCEPT ![dr] = AddW(rg[sr1], imm5)], dr)}

case_LD(rg, mem, w) ==
    LET dr        == Bits9(w)
        PCoffset9 == sign_extend(BitAnd(w, 511), 9)
    IN  { update_flags([rg EXCEPT ![dr] = v], dr) :
            v \in mem_read(mem, AddW(PCoffset9, rg[RG_PC])) }

case_ST(rg, mem, w) ==
    LET sr        == Bits6(w)
        PCoffset9 == sign_extend(BitAnd(w, 511), 9)
    IN  UNION { update_flags_stale([rg EXCEPT ![sr] = v]) :
                  v \in mem_read(mem, AddW(PCoffset9, rg[RG_PC])) }

case_JSR(rg, mem, w) ==
    LET PCoffset11 == sign_extend(BitAnd(w, 511), 11)
        jsr_flag   == BitAnd(Shr(w, 11), 1)
        BaseR_jsrr == Bits6(w)
    IN  IF jsr_flag = 0
        THEN {[rg EXCEPT ![RG_PC] = BaseR_jsrr]}
        ELSE {[rg EXCEPT ![RG_PC] = AddW(rg[RG_PC], PCoffset11)]}

case_AND(rg, mem, w) ==
    LET dr       == Bits9(w)
        sr1      == Bits6(w)
        imm_flag == BitAnd(Shr(w, 5), 1)
        sr2      == BitAnd(w, 7)
        imm5     == sign_extend(BitAnd(w, 31), 5)
    IN  IF imm_flag = 0
        THEN {update_flags([rg EXCEPT ![dr] = BitAnd(rg[sr1], sr2)], dr)}
        ELSE {update_flags([rg EXCEPT ![dr] = BitAnd(rg[sr1], imm5)], dr)}

case_LDR(rg, mem, w) ==
    LET dr      == Bits9(w)
        BaseR   == Bits6(w)
        offset6 == sign_extend(BitAnd(w, 1023), 6)
    IN  { update_flags([rg EXCEPT ![dr] = v], dr) :
            v \in mem_read(mem, AddW(rg[BaseR], offset6)) }

case_STR(rg, mem, w) ==
    LET sr      == Bits6(w)
        BaseR   == Bits6(w)
        offset6 == sign_extend(BitAnd(w, 511), 6)
    IN  UNION { update_flags_stale([rg EXCEPT ![sr] = v]) :
                  v \in mem_read(mem, AddW(offset6, BaseR)) }

\* case OP_NOT negating (two's complement) instead of complementing
case_NOT_negate(rg, mem, w) ==
    LET dr == Bits9(w)
        sr == Bits6(w)
    IN  {update_flags([rg EXCEPT ![dr] = (WordMod - rg[sr]) % WordMod], dr)}

case_NOT(rg, mem, w) ==
    LET dr == Bits9(w)
        sr == Bits6(w)
    IN  {update_flags([rg EXCEPT ![dr] = BitNot(rg[sr])], dr)}

case_LDI(rg, mem, w) ==
    LET dr        == Bits9(w)
        PCoffset9 == sign_extend(BitAnd(w, 511), 9)
    IN  { update_flags([rg EXCEPT ![dr] = v], dr) :
            v \in UNION { mem_read(mem, a) :
                            a \in mem_read(mem, AddW(PCoffset9, rg[RG_PC])) } }

case_STI(rg, mem, w) ==
    LET sr        == Bits6(w)
        PCoffset9 == sign_extend(BitAnd(w, 511), 9)
    IN  UNION { update_flags_stale([rg EXCEPT ![sr] = v]) :
                  v \in UNION { mem_read(mem, a) :
                                  a \in mem_read(mem, AddW(PCoffset9, rg[RG_PC])) } }

case_JMP(rg, mem, w) ==
    LET BaseR == Bits6(w)
    IN  update_flags_stale([rg EXCEPT ![RG_PC] = rg[BaseR]])

\* case OP_LEA adding the offset to the address of the instruction itself
case_LEA_preinc(rg, mem, w) ==
    LET dr        == Bits9(w)
        PCoffset9 == sign_extend(BitAnd(w, 511), 9)
    IN  {update_flags([rg EXCEPT ![dr] =
                          AddW(AddW(rg[RG_PC], 65535), PCoffset9)], dr)}

case_LEA(rg, mem, w) ==
    LET dr        == Bits9(w)
        PCoffset9 == sign_extend(BitAnd(w, 511), 9)
    IN  {update_flags([rg EXCEPT ![dr] = AddW(rg[RG_PC], PCoffset9)], dr)}

\* case OP_TRAP: the body is the comment //{TRAP};
case_TRAP(rg, mem, w) == {rg}

\* the bad-opcode case saving a return address in R7 as a trap would
case_BAD_OPCODE_links(rg, mem, w) == {[rg EXCEPT ![RG_111] = rg[RG_PC]]}

\* case OP_RES, case OP_RTI, default: the body is the comment //{BAD_OPCODE}
case_BAD_OPCODE(rg, mem, w) == {rg}

(* --------------------------- program images ---------------------------- *)
\* instruction words: opcode in bits 12-15, then three 3-bit fields and bits 0-5
Enc(op, f9, f6, low6) == op * 4096 + f9 * 512 + f6 * 64 + low6
\* opcode, 3-bit field in bits 9-11, 9-bit field in bits 0-8
Enc9(op, f9, off9) == op * 4096 + f9 * 512 + off9

\* the words a loaded image is made of
InstrSet ==
    { Enc(OP_ADD, 1, 1, 32 + 5),      \* ADD  R1, R1, #5
      Enc(OP_ADD, 2, 2, 32 + 3),      \* ADD  R2, R2, #3
      Enc(OP_ADD, 0, 1, 2),           \* ADD  R0, R1, R2
      Enc(OP_AND, 0, 1, 32 + 31),     \* AND  R0, R1, #-1
      Enc(OP_AND, 0, 1, 2),           \* AND  R0, R1, R2
      Enc(OP_NOT, 1, 1, 63),          \* NOT  R1, R1
      Enc9(OP_LD, 3, 511),            \* LD   R3, #-1
      Enc9(OP_LDI, 3, 511),           \* LDI  R3, #-1
      Enc(OP_LDR, 3, 2, 0),           \* LDR  R3, R2, #0
      Enc9(OP_LEA, 2, 0),             \* LEA  R2, #0
      Enc9(OP_ST, 1, 1),              \* ST   R1, #1
      Enc9(OP_STI, 1, 1),             \* STI  R1, #1
      Enc(OP_STR, 1, 2, 0),           \* STR  R1, R2, #0
      Enc(OP_JMP, 0, 1, 0),           \* JMP  R1
      Enc9(OP_JSR, 4, 2),             \* JSR  #2
      Enc(OP_JSR, 0, 1, 0),           \* JSRR R1
      Enc9(OP_BR, 7, 1),              \* BRnzp #1
      Enc9(OP_BR, 2, 511),            \* BRz  #-1
      Enc9(OP_TRAP, 0, 37),           \* TRAP x25
      Enc9(OP_TRAP, 0, 255),          \* TRAP xFF
      Enc9(OP_RES, 0, 0),             \* reserved opcode
      Enc9(OP_RTI, 0, 0) }            \* RTI

\* memory[] once the image p is loaded at PC_START
ImageAt(p) == [a \in PC_START .. (PC_START + Len(p) - 1) |-> p[a - PC_START + 1]]

(* ------------------------------ the loop ------------------------------- *)
\* The state in which while(running) is entered (line 116): reg[] is a zeroed
\* static array, then reg[RG_COND] = FL_Z; reg[RG_PC] = 0x3000; running = TRUE.
\* memory[] holds a loaded image.  (The argument handling of lines 100-108,
\* which precedes this state, is not part of this specification.)
Init ==
    /\ reg = [r \in 0 .. (RG_COUNT - 1) |->
                IF r = RG_PC THEN PC_START ELSE IF r = RG_COND THEN FL_Z ELSE 0]
    /\ memory \in { ImageAt(p) : p \in [1 .. ProgLen -> InstrSet] }
    /\ running = TRUE
    /\ instr = 0
    /\ steps = 0
    /\ pre = [reg |-> reg, memory |-> memory, running |-> running]
    /\ pc = "loop"
    /\ argv = <<TRUE>>
    /\ call = NoCall

\* reg[RG_PC]++ on a PC wider than 16 bits
PostInc_nowrap(rg) == [rg EXCEPT ![RG_PC] = rg[RG_PC] + 1]

\* reg[RG_PC]++
PostInc(rg) == [rg EXCEPT ![RG_PC] = AddW(rg[RG_PC], 1)]

\* an iteration that aborts the loop on a bad opcode
Iterate_aborts(w, rgs) ==
    /\ instr' = w
    /\ reg' \in rgs
    /\ steps' = steps + 1
    /\ pre' = [reg |-> reg, memory |-> memory, running |-> running]
    /\ running' = (Op(w) \notin {OP_RES, OP_RTI})
    /\ UNCHANGED <<memory, pc, argv, call>>

\* one iteration of while(running): instr = mem_read(reg[RG_PC]++), then the
\* case of the switch that instr >> 12 selects leaves one of the register files rgs
Iterate(w, rgs) ==
    /\ instr' = w
    /\ reg' \in rgs
    /\ steps' = steps + 1
    /\ pre' = [reg |-> reg, memory |-> memory, running |-> running]
    /\ UNCHANGED <<memory, running, pc, argv, call>>

\* the instruction words the fetch of this iteration may yield
Fetch ==
    IF pc = "loop" /\ running /\ steps < MaxSteps
    THEN mem_read(memory, reg[RG_PC]) ELSE {}

ExecBR ==
    \E w \in Fetch : Op(w) = OP_BR /\ Iterate(w, case_BR(PostInc(reg), memory, w))
ExecADD ==
    \E w \in Fetch : Op(w) = OP_ADD /\ Iterate(w, case_ADD(PostInc(reg), memory, w))
ExecLD ==
    \E w \in Fetch : Op(w) = OP_LD /\ Iterate(w, case_LD(PostInc(reg), memory, w))
ExecST ==
    \E w \in Fetch : Op(w) = OP_ST /\ Iterate(w, case_ST(PostInc(reg), memory, w))
ExecJSR ==
    \E w \in Fetch : Op(w) = OP_JSR /\ Iterate(w, case_JSR(PostInc(reg), memory, w))
ExecAND ==
    \E w \in Fetch : Op(w) = OP_AND /\ Iterate(w, case_AND(PostInc(reg), memory, w))
ExecLDR ==
    \E w \in Fetch : Op(w) = OP_LDR /\ Iterate(w, case_LDR(PostInc(reg), memory, w))
ExecSTR ==
    \E w \in Fetch : Op(w) = OP_STR /\ Iterate(w, case_STR(PostInc(reg), memory, w))
ExecNOT ==
    \E w \in Fetch : Op(w) = OP_NOT /\ Iterate(w, case_NOT(PostInc(reg), memory, w))
ExecLDI ==
    \E w \in Fetch : Op(w) = OP_LDI /\ Iterate(w, case_LDI(PostInc(reg), memory, w))
ExecSTI ==
    \E w \in Fetch : Op(w) = OP_STI /\ Iterate(w, case_STI(PostInc(reg), memory, w))
ExecJMP ==
    \E w \in Fetch : Op(w) = OP_JMP /\ Iterate(w, case_JMP(PostInc(reg), memory, w))
ExecLEA ==
    \E w \in Fetch : Op(w) = OP_LEA /\ Iterate(w, case_LEA(PostInc(reg), memory, w))
ExecTRAP ==
    \E w \in Fetch : Op(w) = OP_TRAP /\ Iterate(w, case_TRAP(PostInc(reg), memory, w))
ExecBAD_OPCODE ==
    \E w \in Fetch : Op(w) \in {OP_RES, OP_RTI}
                     /\ Iterate(w, case_BAD_OPCODE(PostInc(reg), memory, w))

Next ==
    \/ ExecBR
    \/ ExecADD
    \/ ExecLD
    \/ ExecST
    \/ ExecJSR
    \/ ExecAND
    \/ ExecLDR
    \/ ExecSTR
    \/ ExecNOT
    \/ ExecLDI
    \/ ExecSTI
    \/ ExecJMP
    \/ ExecLEA
    \/ ExecTRAP
    \/ ExecBAD_OPCODE

Spec == Init /\ [][Next]_vars

TypeOK ==
    /\ reg \in [0 .. (RG_COUNT - 1) -> Word]
    /\ \A a \in DOMAIN memory : a \in 0 .. (UINT16_MAX - 1) /\ memory[a] \in Word
    /\ running \in BOOLEAN
    /\ instr \in Word
    /\ steps \in 0 .. MaxSteps
    /\ pc \in {"main", "loop", "exit_1", "exit_2", "sign_extend", "returned"}
    /\ argv \in Seq(BOOLEAN)
    /\ call.n \in Word /\ call.bit_count \in 1 .. 16 /\ call.ret \in Word

(* ------------------------- main before the loop ------------------------ *)
\* argc
argc == Len(argv) + 1

\* entry of main: memory[] and reg[] are zeroed static arrays, nothing is loaded
\* and running is not declared yet
InitMain ==
    /\ reg = [r \in 0 .. (RG_COUNT - 1) |-> 0]
    /\ memory = <<>>
    /\ running = FALSE
    /\ instr = 0
    /\ steps = 0
    /\ pre = [reg |-> reg, memory |-> memory, running |-> running]
    /\ pc = "main"
    /\ argv \in UNION { [1 .. k -> BOOLEAN] : k \in 0 .. MaxArgs }
    /\ call = NoCall

\* if(argc < 2) { printf("usage: ..."); exit(2); }
Usage ==
    /\ pc = "main"
    /\ argc < 2
    /\ pc' = "exit_2"
    /\ UNCHANGED <<reg, memory, running, instr, steps, pre, argv, call>>

\* for(int i = 1; i < argc; i++) { printf("failed to load image: ..."); exit(1); }
\* The body calls no loader: its first pass, at i = 1, exits.  With argc >= 2
\* that pass always runs, so the statements after the for are never reached
\* from the entry of main.
LoadImages ==
    /\ pc = "main"
    /\ ~(argc < 2)
    /\ 1 < argc
    /\ pc' = "exit_1"
    /\ UNCHANGED <<reg, memory, running, instr, steps, pre, argv, call>>

NextMain ==
    \/ Usage
    \/ LoadImages

SpecMain == InitMain /\ [][NextMain]_vars

(* ----------------------- sign_extend on its own ------------------------ *)
\* before a call sign_extend(n, bit_count): bit_count is chosen
InitSignExtend ==
    /\ reg = [r \in 0 .. (RG_COUNT - 1) |-> 0]
    /\ memory = <<>>
    /\ running = FALSE
    /\ instr = 0
    /\ steps = 0
    /\ pre = [reg |-> reg, memory |-> memory, running |-> running]
    /\ pc = "sign_extend"
    /\ argv = <<>>
    /\ call \in { [n |-> 0, bit_count |-> b, ret |-> 0] : b \in 1 .. 16 }

\* the call sign_extend(n, bit_count), for an n that fits in bit_count bits,
\* returns
CallSignExtend ==
    /\ pc = "sign_extend"
    /\ \E n \in 0 .. (Pow2(call.bit_count) - 1) :
           call' = [n |-> n, bit_count |-> call.bit_count,
                    ret |-> sign_extend(n, call.bit_count)]
    /\ pc' = "returned"
    /\ UNCHANGED <<reg, memory, running, instr, steps, pre, argv>>

NextSignExtend == CallSignExtend

SpecSignExtend == InitSignExtend /\ [][NextSignExtend]_vars

(* ----------------------------- properties ------------------------------ *)
\* the last iteration executed an instruction of opcode op: instr is that
\* instruction and pre is the state it was fetched in
Executed(op) == steps > 0 /\ Op(instr) = op

\* an N-bit field widened to a word as a two's-complement number
SignExt(n, N) == IF n >= Pow2(N - 1) THEN (n + WordMod - Pow2(N)) % WordMod ELSE n

\* the sign class of a 16-bit value
SignClass(v) == IF v = 0 THEN FL_Z ELSE IF v >= 32768 THEN FL_N ELSE FL_P

\* the address of the instruction after the one just executed
NextPC == AddW(pre.reg[RG_PC], 1)

\* C1: after an ADD, the destination register (bits 9-11) holds
\* (src1 + value of register src2) mod 2^16 in register mode and
\* (src1 + sign-extended imm5) mod 2^16 in immediate mode, and COND is the sign
\* class of that value (R1=5, R2=3, ADD R0,R1,R2 gives R0=8, COND=Positive).
C1_AddRegisterOperand ==
    Executed(OP_ADD) =>
        LET operand == IF BitAnd(Shr(instr, 5), 1) = 0
                       THEN pre.reg[BitAnd(instr, 7)]
                       ELSE SignExt(BitAnd(instr, 31), 5)
            sum     == AddW(pre.reg[Bits6(instr)], operand)
        IN  reg[Bits9(instr)] = sum /\ reg[RG_COND] = SignClass(sum)

\* C2: after an AND, the destination register holds src1 AND (value of
\* register src2) in register mode and src1 AND (sign-extended imm5) in
\* immediate mode, and COND is the sign class of that value.
C2_AndRegisterOperand ==
    Executed(OP_AND) =>
        LET operand == IF BitAnd(Shr(instr, 5), 1) = 0
                       THEN pre.reg[BitAnd(instr, 7)]
                       ELSE SignExt(BitAnd(instr, 31), 5)
            conj    == BitAnd(pre.reg[Bits6(instr)], operand)
        IN  reg[Bits9(instr)] = conj /\ reg[RG_COND] = SignClass(conj)

\* the last iteration executed TRAP with vector 0x25
HaltExecuted == Executed(OP_TRAP) /\ BitAnd(instr, 255) = 37

\* C3: executing TRAP x25 leaves the loop Halted, and once it was executed no
\* further iteration fetches an instruction or increments PC.
C3_HaltStopsLoop ==
    [][ /\ HaltExecuted' => ~running'
        /\ HaltExecuted => UNCHANGED <<instr, reg>> ]_vars

\* the opcodes that update the flags
FlagOps == {OP_ADD, OP_AND, OP_NOT, OP_LD, OP_LDI, OP_LDR, OP_LEA}

\* C4: COND is always exactly one of Positive, Zero, Negative, and after an
\* instruction that updates flags it is the sign class of the value now held by
\* the instruction's destination register.
C4_FlagsOneHot ==
    /\ reg[RG_COND] \in {FL_P, FL_Z, FL_N}
    /\ (steps > 0 /\ Op(instr) \in FlagOps) =>
           reg[RG_COND] = SignClass(reg[Bits9(instr)])

\* C4: a NOT has just written a value with bit 15 set and COND is Negative
C4_Witness ==
    /\ Executed(OP_NOT)
    /\ reg[Bits9(instr)] >= 32768
    /\ reg[RG_COND] = FL_N

\* C5: an LDR executed right after an STR with the same base register and the
\* same 6-bit offset loads the value the STR's source register (bits 9-11) held.
C5_StrThenLdr ==
    [][ ( /\ Executed(OP_STR)
          /\ steps' = steps + 1
          /\ Op(instr') = OP_LDR
          /\ Bits6(instr') = Bits6(instr)
          /\ BitAnd(instr', 63) = BitAnd(instr, 63) )
        => reg'[Bits9(instr')] = pre.reg[Bits9(instr)] ]_vars

\* C6: an LDR with offset field 0 executed right after an LEA, its base the
\* LEA's destination, loads Memory[A], A the address the LEA computed.
C6_LeaThenLdr ==
    [][ ( /\ Executed(OP_LEA)
          /\ steps' = steps + 1
          /\ Op(instr') = OP_LDR
          /\ Bits6(instr') = Bits9(instr)
          /\ BitAnd(instr', 63) = 0 )
        => reg'[Bits9(instr')] \in mem_read(memory, reg[Bits9(instr)]) ]_vars

\* C7: after an ST, Memory[(post-increment PC + sign-extended offset9) mod 2^16]
\* holds the value the source register held (the register of bits 9-11, or the
\* one of bits 6-8 that the code calls sr), every other word is as before, and
\* COND is unchanged.
C7_StWritesMemory ==
    Executed(OP_ST) =>
        LET ea == AddW(NextPC, SignExt(BitAnd(instr, 511), 9))
        IN  /\ Mem(memory, ea) \in {pre.reg[Bits9(instr)], pre.reg[Bits6(instr)]}
            /\ \A a \in (DOMAIN memory \cup DOMAIN pre.memory) \ {ea} :
                   Mem(memory, a) = Mem(pre.memory, a)
            /\ reg[RG_COND] = pre.reg[RG_COND]

\* C8: after a JSR, R7 holds the post-increment PC; PC is the post-increment PC
\* plus the sign-extended 11-bit field when bit 11 is set, and the value of the
\* base register (bits 6-8) otherwise; COND is unchanged.
C8_JsrLinksAndJumps ==
    Executed(OP_JSR) =>
        LET linked == [pre.reg EXCEPT ![RG_111] = NextPC]
        IN  /\ reg[RG_111] = NextPC
            /\ reg[RG_PC] = IF BitAnd(Shr(instr, 11), 1) = 1
                            THEN AddW(NextPC, SignExt(BitAnd(instr, 2047), 11))
                            ELSE linked[Bits6(instr)]
            /\ reg[RG_COND] = pre.reg[RG_COND]

\* C9: after a TRAP, R7 holds the post-increment PC; with a vector outside
\* 0x20..0x25 nothing else changed: PC is the post-increment PC and the loop is
\* still running.
C9_TrapSavesR7 ==
    Executed(OP_TRAP) =>
        /\ reg[RG_111] = NextPC
        /\ BitAnd(instr, 255) \notin 32 .. 37 =>
               /\ reg = [pre.reg EXCEPT ![RG_111] = NextPC, ![RG_PC] = NextPC]
               /\ memory = pre.memory
               /\ running

\* the last iteration executed an instruction of opcode RES or RTI
BadExecuted == steps > 0 /\ Op(instr) \in {OP_RES, OP_RTI}

\* C10: after an instruction of opcode RES or RTI, R0-R7, COND and memory are
\* as before, PC is the old PC + 1 mod 2^16 and the loop is running; the next
\* iteration fetches the word at that PC.
C10_BadOpcodeIsNoOp ==
    /\ [](BadExecuted =>
            /\ reg = [pre.reg EXCEPT ![RG_PC] = NextPC]
            /\ memory = pre.memory
            /\ running)
    /\ [][(BadExecuted /\ steps' = steps + 1) =>
            instr' \in mem_read(memory, NextPC)]_vars

\* C10: a RES was executed with R1 = 5, and the iteration after it fetched the
\* following instruction, a second RES
C10_Witness ==
    /\ steps = 3
    /\ Op(instr) = OP_RES
    /\ pre.reg[RG_PC] = PC_START + 2
    /\ Op(Mem(memory, PC_START + 1)) = OP_RES
    /\ reg[RG_001] = 5
    /\ reg[RG_PC] = PC_START + 3

\* the indices at which the last iteration read memory[]: the fetch at the old
\* PC and the first address each load or store case passes to mem_read
Accessed ==
    LET off9 == sign_extend(BitAnd(instr, 511), 9)
    IN  {pre.reg[RG_PC]}
        \cup (IF Op(instr) \in {OP_LD, OP_ST, OP_LDI, OP_STI}
              THEN {AddW(off9, NextPC)} ELSE {})
        \cup (IF Op(instr) = OP_LDR
              THEN {AddW(pre.reg[Bits6(instr)],
                         sign_extend(BitAnd(instr, 1023), 6))} ELSE {})
        \cup (IF Op(instr) = OP_STR
              THEN {AddW(sign_extend(BitAnd(instr, 511), 6), Bits6(instr))}
              ELSE {})

\* C11: every index at which the loop reads memory[] (the fetch at PC and the
\* effective addresses) lies inside the declared array, for every 16-bit
\* address, a fetch at PC = 0xFFFF included.
C11_AccessInBounds ==
    steps > 0 => \A a \in Accessed : a \in 0 .. (UINT16_MAX - 1)

\* every image file named on the command line can be loaded
AllLoadable == \A i \in 1 .. Len(argv) : argv[i]

\* C12: once main has left its entry with at least one image argument and every
\* image loadable, the program is in the run loop, Running with PC = 0x3000 and
\* COND = Zero; it has exited with code 1 only if some image cannot be loaded.
C12_LoadedImagesEnterLoop ==
    /\ (pc # "main" /\ argc >= 2 /\ AllLoadable) =>
           /\ pc = "loop"
           /\ running
           /\ reg[RG_PC] = PC_START
           /\ reg[RG_COND] = FL_Z
    /\ pc = "exit_1" => ~AllLoadable

C14_OnlyHaltStops == (steps > 0 /\ ~HaltExecuted) => running

\* C14: TRAP xFF and then RES were executed and the loop is still running
C14_Witness ==
    /\ steps = 2
    /\ running
    /\ Mem(memory, PC_START) = Enc9(OP_TRAP, 0, 255)
    /\ Op(instr) = OP_RES
    /\ pre.reg[RG_PC] = PC_START + 1

\* C15: a BR changes only PC: to post-increment PC + sign-extended offset9 when
\* (mask AND COND) is nonzero, to the post-increment PC otherwise; R0-R7, COND
\* and memory are as before, and a mask of 000 never branches.
C15_BrChangesOnlyPC ==
    Executed(OP_BR) =>
        LET taken  == BitAnd(Bits9(instr), pre.reg[RG_COND]) # 0
            target == AddW(NextPC, SignExt(BitAnd(instr, 511), 9))
        IN  /\ reg = [pre.reg EXCEPT ![RG_PC] = IF taken THEN target ELSE NextPC]
            /\ memory = pre.memory
            /\ Bits9(instr) = 0 => reg[RG_PC] = NextPC

\* C15: BRz #-1 was executed with COND = Zero and branched back to itself
C15_Witness ==
    /\ Executed(OP_BR)
    /\ instr = Enc9(OP_BR, 2, 511)
    /\ pre.reg[RG_COND] = FL_Z
    /\ reg[RG_PC] = pre.reg[RG_PC]

\* C16: after ST, STI or STR each of R0-R7 and COND is as before.
C16_StoresKeepRegisters ==
    (steps > 0 /\ Op(instr) \in {OP_ST, OP_STI, OP_STR}) =>
        \A r \in (RG_000 .. RG_111) \cup {RG_COND} : reg[r] = pre.reg[r]

\* C17: after a JMP, PC is the value of the base register (bits 6-8) and
\* R0-R7, COND and memory are as before.
C17_JmpChangesOnlyPC ==
    Executed(OP_JMP) =>
        /\ reg = [pre.reg EXCEPT ![RG_PC] = pre.reg[Bits6(instr)]]
        /\ memory = pre.memory

\* C18: for an instruction fetched at a, with ea = (a + 1 + sext9) mod 2^16:
\* LD leaves in its destination the word read at ea, LDI the word read at the
\* address read at ea, and LEA leaves ea itself, also when the sum wraps.
C18_PcRelativeLoads ==
    LET ea == AddW(NextPC, SignExt(BitAnd(instr, 511), 9))
        dr == Bits9(instr)
    IN  /\ Executed(OP_LD) => reg[dr] \in mem_read(memory, ea)
        /\ Executed(OP_LDI) =>
               reg[dr] \in UNION { mem_read(memory, a) : a \in mem_read(memory, ea) }
        /\ Executed(OP_LEA) => reg[dr] = ea

\* C18: a LEA fetched at 0xFFFF with offset 0 has left 0x0000 in its destination
C18_Witness ==
    /\ Executed(OP_LEA)
    /\ pre.reg[RG_PC] = 65535
    /\ BitAnd(instr, 511) = 0
    /\ reg[Bits9(instr)] = 0

\* C19: after a NOT the destination (bits 9-11) holds the 16-bit complement of
\* the source (bits 6-8), no other general-purpose register and no memory word
\* changed, and COND is the sign class of the new value; a second NOT with the
\* same register as source and destination restores the original value.
C19_NotComplements ==
    /\ [](Executed(OP_NOT) =>
            /\ reg[Bits9(instr)] = 65535 - pre.reg[Bits6(instr)]
            /\ \A r \in (RG_000 .. RG_111) \ {Bits9(instr)} : reg[r] = pre.reg[r]
            /\ memory = pre.memory
            /\ reg[RG_COND] = SignClass(reg[Bits9(instr)]))
    /\ [][( /\ Executed(OP_NOT)
            /\ Bits9(instr) = Bits6(instr)
            /\ steps' = steps + 1
            /\ instr' = instr )
          => reg'[Bits9(instr)] = pre.reg[Bits9(instr)]]_vars

\* C19: NOT R1,R1 was executed twice on R1 = 5 and R1 is 5 again
C19_Witness ==
    /\ steps = 3
    /\ Executed(OP_NOT)
    /\ Bits9(instr) = RG_001 /\ Bits6(instr) = RG_001
    /\ pre.reg[RG_001] = 65530
    /\ reg[RG_001] = 5

\* the opcodes that are no control transfer
NonControlOps ==
    {OP_ADD, OP_AND, OP_NOT, OP_LD, OP_LDI, OP_LDR, OP_LEA, OP_ST, OP_STI,
     OP_STR, OP_RES, OP_RTI}

\* C20: after an instruction that is no control transfer PC is the old PC + 1
\* mod 2^16 (0x0000 after a fetch at 0xFFFF), and each of its register fields
\* names one of R0-R7, never PC.
C20_PcAdvancesByOne ==
    (steps > 0 /\ Op(instr) \in NonControlOps) =>
        /\ reg[RG_PC] = (pre.reg[RG_PC] + 1) % WordMod
        /\ {Bits9(instr), Bits6(instr), BitAnd(instr, 7)} \subseteq RG_000 .. RG_111

\* C20: an instruction that is no control transfer was fetched at 0xFFFF and PC
\* is 0x0000
C20_Witness ==
    /\ steps > 0
    /\ Op(instr) \in NonControlOps
    /\ pre.reg[RG_PC] = 65535
    /\ reg[RG_PC] = 0

====
